---- MODULE Spec2Model ----
(***************************************************************************)
(* Astro Run (src/p5.js): the simulation state of the endless runner, the  *)
(* frame callback draw(), the key handler keyPressed(), windowResized()    *)
(* and the Astronaut and Obstacle methods they call.                       *)
(*                                                                         *)
(* Numbers.  The sketch computes in JavaScript numbers; the model keeps    *)
(* every quantity as an exact integer multiple of a fixed unit:            *)
(*   vertical positions and velocities   1/YU px   (0.6, 20 + score/50)    *)
(*   horizontal positions and speeds     1/XU px   (0.003 per frame)       *)
(*   spawnInterval and spawnTimer        1/TU frame (score/15, *0.8, *1.2) *)
(* so the arithmetic below is the exact arithmetic of the source           *)
(* expressions; IEEE-754 rounding of the doubles is not represented.       *)
(* Particles (render-only, never read by the simulation) are left out.     *)
(***************************************************************************)
EXTENDS Integers, Sequences, FiniteSets, TLC

VARIABLES
    gameState,        \* 'START' | 'PLAYING' | 'GAME_OVER'
    score,
    highScore,
    currentMilestone,
    backgroundIndex,
    obstacleSpeed,    \* 1/XU px per frame
    spawnTimer,       \* 1/TU frames
    spawnInterval,    \* 1/TU frames
    width,            \* canvas width, px
    groundY,          \* ground line, px
    astronaut,        \* [x, y, vy, ay, isGrounded, jumpCount]
    obstacles,        \* sequence of [x, y, w, h], in spawn order
    storedItem,       \* local storage item 'astroRunHighScore' (NoItem when absent)
    storeLog,         \* the values handed to storeItem, oldest first
    runs,             \* startGame() calls so far
    presses,          \* space presses delivered while PLAYING so far
    lastEvent,        \* the callback that ran last: "setup", "draw", "space", "r", "resize"
    lastSpawn,        \* score of the frame of this run's latest spawnObstacle(), 0 if none
    prevSpawn,        \* score of the frame of the spawn before that one, 0 if none
    removed,          \* obstacles spliced out of the collection in this run
    airFrames         \* PLAYING frames in a row that ended with isGrounded = false

vars == <<gameState, score, highScore, currentMilestone, backgroundIndex,
          obstacleSpeed, spawnTimer, spawnInterval, width, groundY,
          astronaut, obstacles, storedItem, storeLog, runs, presses,
          lastEvent, lastSpawn, prevSpawn, removed, airFrames>>

(* What is recorded about the run for the properties only *)
hist == <<lastSpawn, prevSpawn, removed, airFrames>>

----------------------------------------------------------------------------
(* Bounds of the model *)

MaxScore == 125     \* frames of one run
MaxRuns == 2        \* startGame() calls
MaxPresses == 3     \* space presses delivered while PLAYING
PressEvery == 4     \* a press arrives only in frames whose score is a multiple of it
DeepScore == 780    \* frames of one run of the long game
NearLo == 25        \* the long game's player presses with an obstacle this near, px
NearHi == 60

(* The wide field: its canvas width, and the score its runs are followed to *)
FieldWidth == 1600
FieldScore == 665

(* The narrow field: a canvas on which the astronaut's left edge, at
   width / 4 - 20, is left of the field's edge *)
NarrowWidth == 60

(* Resizing: the score the runs are followed to, and the heights the window takes *)
ResizeScore == 24
ResizeHeights == {160, 200, 260}

(* The frames in a row a jump with a double jump can keep the astronaut in the
   air: the double jump pressed 31 to 35 frames after the jump gives 64 *)
MaxAir == 64

(* Boxes are tried up to this many position units apart from touching *)
MaxGap == 1

(* Units *)
YU == 50
XU == 1000
TU == 1500

(* Game configuration, src/p5.js:4-10 *)
GRAVITY == (6 * YU) \div 10
JUMP_FORCE == -11 * YU
DOUBLE_JUMP_FORCE == -9 * YU
GROUND_Y_OFFSET == 80
SCORE_MILESTONE == 100
START_SPEED == 4 * XU
SPEED_INCREASE == (3 * XU) \div 1000

(* Astronaut constructor *)
AstroW == 40
AstroH == 60

(* The window the sketch runs in *)
WindowWidth == 80
WindowHeight == 200

(* What local storage may hold when the sketch starts *)
NoItem == -1
StoredAtStart == {NoItem, 108}

(* Outcomes of random(lo, hi) the model draws, as lo + pct% of (hi - lo): for an
   obstacle's height and width, and for the spawn timer *)
SizePercents == {0, 95}
TimerPercents == {50}

Max(a, b) == IF a >= b THEN a ELSE b
Min(a, b) == IF a <= b THEN a ELSE b

Random(P, lo, hi) == { lo + ((hi - lo) * p) \div 100 : p \in P }

----------------------------------------------------------------------------
(* class Astronaut *)

AstroReset(x, y) ==
    [x |-> x, y |-> y, vy |-> 0, ay |-> 0, isGrounded |-> TRUE, jumpCount |-> 0]

(* applyGravity() at half the strength *)
ApplyGravityWeak(a) == [a EXCEPT !.ay = @ + GRAVITY \div 2]

ApplyGravity(a) == [a EXCEPT !.ay = @ + GRAVITY]

(* Jump without the limit on jumps in the air *)
JumpUnlimited(a) ==
    IF a.isGrounded
    THEN [a EXCEPT !.vy = JUMP_FORCE, !.isGrounded = FALSE, !.jumpCount = 1]
    ELSE [a EXCEPT !.vy = DOUBLE_JUMP_FORCE, !.jumpCount = 2]

(* jump() leaving jumpCount at 0 on the first jump *)
JumpUncounted(a) ==
    IF a.isGrounded
    THEN [a EXCEPT !.vy = JUMP_FORCE, !.isGrounded = FALSE]
    ELSE IF a.jumpCount < 2
         THEN [a EXCEPT !.vy = DOUBLE_JUMP_FORCE, !.jumpCount = @ + 1]
         ELSE a

Jump(a) ==
    IF a.isGrounded
    THEN [a EXCEPT !.vy = JUMP_FORCE, !.isGrounded = FALSE, !.jumpCount = 1]
    ELSE IF a.jumpCount < 2
         THEN [a EXCEPT !.vy = DOUBLE_JUMP_FORCE, !.jumpCount = 2]
         ELSE a

(* vel.add(acc); pos.add(vel); acc.mult(0); then the failsafe clamp *)
AstroUpdate(a, gY) ==
    LET v == a.vy + a.ay
        y == a.y + v
    IN  IF y + (AstroH * YU) \div 2 > gY * YU
        THEN [a EXCEPT !.y = gY * YU - (AstroH * YU) \div 2, !.vy = 0, !.ay = 0,
                       !.isGrounded = TRUE, !.jumpCount = 0]
        ELSE [a EXCEPT !.y = y, !.vy = v, !.ay = 0]

(* CheckGroundCollision that lands without giving the jumps back *)
CheckGroundKeepsCount(a, gndY) ==
    IF a.y + (AstroH * YU) \div 2 >= gndY * YU /\ a.vy >= 0
    THEN [a EXCEPT !.y = gndY * YU - (AstroH * YU) \div 2, !.vy = 0,
                   !.isGrounded = TRUE]
    ELSE a

CheckGroundCollision(a, gndY) ==
    IF a.y + (AstroH * YU) \div 2 >= gndY * YU /\ a.vy >= 0
    THEN [a EXCEPT !.y = gndY * YU - (AstroH * YU) \div 2, !.vy = 0,
                   !.isGrounded = TRUE, !.jumpCount = 0]
    ELSE a

HitsStrict(a, o) ==
    LET astroLeft == a.x - (AstroW * XU) \div 2
        astroRight == a.x + (AstroW * XU) \div 2
        astroTop == a.y - (AstroH * YU) \div 2
        astroBottom == a.y + (AstroH * YU) \div 2
        obsLeft == o.x
        obsRight == o.x + o.w
        obsTop == o.y
        obsBottom == o.y + o.h
        noCollision == \/ astroRight <= obsLeft
                       \/ astroLeft >= obsRight
                       \/ astroBottom <= obsTop
                       \/ astroTop >= obsBottom
    IN  ~noCollision

Hits(a, o) ==
    LET astroLeft == a.x - (AstroW * XU) \div 2
        astroRight == a.x + (AstroW * XU) \div 2
        astroTop == a.y - (AstroH * YU) \div 2
        astroBottom == a.y + (AstroH * YU) \div 2
        obsLeft == o.x
        obsRight == o.x + o.w
        obsTop == o.y
        obsBottom == o.y + o.h
        noCollision == \/ astroRight < obsLeft
                       \/ astroLeft > obsRight
                       \/ astroBottom < obsTop
                       \/ astroTop > obsBottom
    IN  ~noCollision

(* class Obstacle *)

NewObstacle(x, y, w, h) == [x |-> x, y |-> y, w |-> w, h |-> h]

ObstacleUpdate(o, speed) == [o EXCEPT !.x = @ - speed]

(* An obstacle taken as offscreen once its left edge has passed the field's edge *)
IsOffscreenLeftEdge(o) == o.x < 0

IsOffscreen(o) == o.x + o.w < 0

----------------------------------------------------------------------------
(* spawnObstacle(): the obstacles it may push, one per outcome of the two draws *)
SpawnObstacle(P, sc, wd, gY) ==
    LET minH == Min(45 * YU, 20 * YU + sc)
        maxH == 60 * YU
    IN  { NewObstacle(wd * XU + w, gY * YU - h, w, h) :
            h \in Random(P, minH, maxH), w \in Random(P, 30 * XU, 50 * XU) }

Splice(s, i) == SubSeq(s, 1, i - 1) \o SubSeq(s, i + 1, Len(s))

(* The loop going on to the remaining obstacles after a hit *)
RECURSIVE ObstacleLoopNoBreak(_, _, _, _)
ObstacleLoopNoBreak(obs, i, speed, a) ==
    IF i < 1
    THEN [obstacles |-> obs, hit |-> FALSE]
    ELSE LET moved == [obs EXCEPT ![i] = ObstacleUpdate(obs[i], speed)]
         IN  IF Hits(a, moved[i])
             THEN [obstacles |-> ObstacleLoopNoBreak(moved, i - 1, speed, a).obstacles,
                   hit |-> TRUE]
             ELSE IF IsOffscreen(moved[i])
                  THEN ObstacleLoopNoBreak(Splice(moved, i), i - 1, speed, a)
                  ELSE ObstacleLoopNoBreak(moved, i - 1, speed, a)

(* The loop testing each obstacle against the astronaut before moving it *)
RECURSIVE ObstacleLoopHitFirst(_, _, _, _)
ObstacleLoopHitFirst(obs, i, speed, a) ==
    IF i < 1
    THEN [obstacles |-> obs, hit |-> FALSE]
    ELSE LET moved == [obs EXCEPT ![i] = ObstacleUpdate(obs[i], speed)]
         IN  IF Hits(a, obs[i])
             THEN [obstacles |-> moved, hit |-> TRUE]
             ELSE IF IsOffscreen(moved[i])
                  THEN ObstacleLoopHitFirst(Splice(moved, i), i - 1, speed, a)
                  ELSE ObstacleLoopHitFirst(moved, i - 1, speed, a)

(* The loop of updateGame over obstacles[i], i from the last index down to 0 *)
RECURSIVE ObstacleLoop(_, _, _, _)
ObstacleLoop(obs, i, speed, a) ==
    IF i < 1
    THEN [obstacles |-> obs, hit |-> FALSE]
    ELSE LET moved == [obs EXCEPT ![i] = ObstacleUpdate(obs[i], speed)]
         IN  IF Hits(a, moved[i])
             THEN [obstacles |-> moved, hit |-> TRUE]
             ELSE IF IsOffscreen(moved[i])
                  THEN ObstacleLoop(Splice(moved, i), i - 1, speed, a)
                  ELSE ObstacleLoop(moved, i - 1, speed, a)

(* The interval without its floor *)
SpawnIntervalNoFloor(sc) == 90 * TU - (sc * TU) \div 15

SpawnIntervalOf(sc) == Max(40 * TU, 90 * TU - (sc * TU) \div 15)

----------------------------------------------------------------------------
(* setup(): the canvas, the astronaut, the stored high score, resetGame() *)
Setup(windowWidth, windowHeight) ==
    /\ width = windowWidth
    /\ groundY = windowHeight - GROUND_Y_OFFSET
    /\ storedItem \in StoredAtStart
    /\ highScore = IF storedItem = NoItem THEN 0 ELSE storedItem
    /\ storeLog = <<>>
    /\ gameState = "START"
    /\ score = 0
    /\ currentMilestone = SCORE_MILESTONE
    /\ backgroundIndex = 0
    /\ obstacles = <<>>
    /\ obstacleSpeed = START_SPEED
    /\ spawnInterval = 90 * TU
    /\ spawnTimer = 90 * TU
    /\ astronaut = AstroReset((windowWidth * XU) \div 4,
                              (windowHeight - GROUND_Y_OFFSET) * YU - (AstroH * YU) \div 2)
    /\ runs = 0
    /\ presses = 0
    /\ lastEvent = "setup"
    /\ lastSpawn = 0
    /\ prevSpawn = 0
    /\ removed = 0
    /\ airFrames = 0

Init == Setup(WindowWidth, WindowHeight)

(* resetGame() with the spawn timer restarted from the initial interval *)
ResetGameFixedTimer ==
    /\ score' = 0
    /\ currentMilestone' = SCORE_MILESTONE
    /\ backgroundIndex' = 0
    /\ obstacles' = <<>>
    /\ obstacleSpeed' = START_SPEED
    /\ spawnTimer' = 90 * TU
    /\ astronaut' = AstroReset((width * XU) \div 4, groundY * YU - (AstroH * YU) \div 2)

(* resetGame() *)
ResetGame ==
    /\ score' = 0
    /\ currentMilestone' = SCORE_MILESTONE
    /\ backgroundIndex' = 0
    /\ obstacles' = <<>>
    /\ obstacleSpeed' = START_SPEED
    /\ spawnTimer' = spawnInterval
    /\ astronaut' = AstroReset((width * XU) \div 4, groundY * YU - (AstroH * YU) \div 2)

(* startGame() with the key press that starts the run also making the astronaut jump *)
StartGameJumping ==
    /\ score' = 0
    /\ currentMilestone' = SCORE_MILESTONE
    /\ backgroundIndex' = 0
    /\ obstacles' = <<>>
    /\ obstacleSpeed' = START_SPEED
    /\ spawnTimer' = spawnInterval
    /\ astronaut' = Jump(AstroReset((width * XU) \div 4,
                                    groundY * YU - (AstroH * YU) \div 2))
    /\ gameState' = "PLAYING"
    /\ runs' = runs + 1
    /\ lastSpawn' = 0
    /\ prevSpawn' = 0
    /\ removed' = 0
    /\ airFrames' = 0
    /\ UNCHANGED <<highScore, spawnInterval, width, groundY, storedItem, storeLog, presses>>

(* startGame() *)
StartGame ==
    /\ ResetGame
    /\ gameState' = "PLAYING"
    /\ runs' = runs + 1
    /\ lastSpawn' = 0
    /\ prevSpawn' = 0
    /\ removed' = 0
    /\ airFrames' = 0
    /\ UNCHANGED <<highScore, spawnInterval, width, groundY, storedItem, storeLog, presses>>

(* The speed set from the start speed instead of accumulated *)
NextSpeedFromStart(speed) == START_SPEED + SPEED_INCREASE

(* The milestone counted only once the score has passed it *)
MilestonePassed(sc, milestone) == sc > milestone

(* The high score replaced by an equal score, and by any score *)
NewHighScoreOrEqual(sc, hs) == sc >= hs

NewHighScoreAlways(sc, hs) == TRUE

(* updateGame(): the score and difficulty step *)
NextSpeed(speed) == speed + SPEED_INCREASE

MilestoneReached(sc, milestone) == sc >= milestone

(* updateGame(): the high score kept, and whether storeItem is called, on a hit *)
NewHighScore(sc, hs) == sc > hs

(* The obstacle loop testing the astronaut as it stood before the physics step *)
HitTestAstronautBefore(before, after) == before

(* updateGame(): the astronaut the obstacle loop tests is the one the physics
   step of this frame has already moved *)
HitTestAstronaut(before, after) == after

(* The spawn timer drawn from half the interval upwards *)
TimerLowHalf(interval) == (interval * 5) \div 10

(* updateGame(): the range the spawn timer is drawn from *)
TimerLow(interval) == (interval * 8) \div 10

TimerHigh(interval) == (interval * 12) \div 10

(* updateGame(), with the timer draw t and the spawned obstacle o as inputs *)
UpdateGame(t, o) ==
    LET sc == score + 1
        speed == NextSpeed(obstacleSpeed)
        interval == SpawnIntervalOf(sc)
        milestone == MilestoneReached(sc, currentMilestone)
        a == CheckGroundCollision(AstroUpdate(ApplyGravity(astronaut), groundY), groundY)
        timer == spawnTimer - TU
        spawn == timer <= 0
        obs == IF spawn THEN Append(obstacles, o) ELSE obstacles
        loop == ObstacleLoop(obs, Len(obs), speed, HitTestAstronaut(astronaut, a))
        record == loop.hit /\ NewHighScore(sc, highScore)
    IN  /\ score' = sc
        /\ obstacleSpeed' = speed
        /\ spawnInterval' = interval
        /\ backgroundIndex' = IF milestone THEN backgroundIndex + 1 ELSE backgroundIndex
        /\ currentMilestone' = IF milestone THEN currentMilestone + SCORE_MILESTONE
                                            ELSE currentMilestone
        /\ astronaut' = a
        /\ spawnTimer' = IF spawn THEN t ELSE timer
        /\ obstacles' = loop.obstacles
        /\ gameState' = IF loop.hit THEN "GAME_OVER" ELSE gameState
        /\ highScore' = IF record THEN sc ELSE highScore
        /\ storedItem' = IF record THEN sc ELSE storedItem
        /\ storeLog' = IF record THEN Append(storeLog, sc) ELSE storeLog
        /\ lastSpawn' = IF spawn THEN sc ELSE lastSpawn
        /\ prevSpawn' = IF spawn THEN lastSpawn ELSE prevSpawn
        /\ removed' = removed + Len(obs) - Len(loop.obstacles)
        /\ airFrames' = IF a.isGrounded THEN 0 ELSE airFrames + 1
        /\ UNCHANGED <<width, groundY, runs, presses>>

(* draw(), case 'START': the astronaut is pinned to the ground *)
DrawStart ==
    /\ gameState = "START"
    /\ astronaut' = [astronaut EXCEPT !.y = groundY * YU - (AstroH * YU) \div 2,
                                      !.vy = 0, !.isGrounded = TRUE, !.jumpCount = 0]
    /\ lastEvent' = "draw"
    /\ UNCHANGED <<gameState, score, highScore, currentMilestone, backgroundIndex,
                   obstacleSpeed, spawnTimer, spawnInterval, width, groundY,
                   obstacles, storedItem, storeLog, runs, presses, hist>>

(* draw(), case 'PLAYING': updateGame() under the draws PT (spawn timer) and PO
   (obstacle size) of random(), for at most maxScore frames *)
DrawPlayingOn(PT, PO, maxScore) ==
    /\ gameState = "PLAYING"
    /\ score < maxScore
    /\ lastEvent' = "draw"
    /\ LET interval == SpawnIntervalOf(score + 1)
       IN  IF spawnTimer - TU <= 0
           THEN \E t \in Random(PT, TimerLow(interval), TimerHigh(interval)) :
                   \E o \in SpawnObstacle(PO, score + 1, width, groundY) :
                      UpdateGame(t, o)
           ELSE UpdateGame(spawnTimer, NewObstacle(0, 0, 0, 0))

(* draw() in GAME_OVER with the astronaut's physics still running *)
DrawGameOverFalling ==
    /\ gameState = "GAME_OVER"
    /\ lastEvent' = "draw"
    /\ astronaut' = CheckGroundCollision(AstroUpdate(ApplyGravity(astronaut), groundY),
                                         groundY)
    /\ UNCHANGED <<gameState, score, highScore, currentMilestone, backgroundIndex,
                   obstacleSpeed, spawnTimer, spawnInterval, width, groundY,
                   obstacles, storedItem, storeLog, runs, presses, hist>>

(* draw(), case 'GAME_OVER': display only *)
DrawGameOver ==
    /\ gameState = "GAME_OVER"
    /\ lastEvent' = "draw"
    /\ UNCHANGED <<gameState, score, highScore, currentMilestone, backgroundIndex,
                   obstacleSpeed, spawnTimer, spawnInterval, width, groundY,
                   astronaut, obstacles, storedItem, storeLog, runs, presses, hist>>

(* keyPressed() with the space bar starting the game from every phase but PLAYING *)
KeySpaceRestarts(pressOK) ==
    /\ lastEvent' = "space"
    /\ IF gameState = "PLAYING"
       THEN /\ pressOK
            /\ astronaut' = Jump(astronaut)
            /\ presses' = presses + 1
            /\ UNCHANGED <<gameState, score, highScore, currentMilestone,
                           backgroundIndex, obstacleSpeed, spawnTimer, spawnInterval,
                           width, groundY, obstacles, storedItem, storeLog, runs, hist>>
       ELSE runs < MaxRuns /\ StartGame

(* keyPressed(), space bar; a press while PLAYING is delivered when pressOK *)
KeySpaceWhen(pressOK) ==
    /\ lastEvent' = "space"
    /\ IF gameState = "PLAYING"
       THEN /\ pressOK
            /\ astronaut' = Jump(astronaut)
            /\ presses' = presses + 1
            /\ UNCHANGED <<gameState, score, highScore, currentMilestone,
                           backgroundIndex, obstacleSpeed, spawnTimer, spawnInterval,
                           width, groundY, obstacles, storedItem, storeLog, runs, hist>>
       ELSE IF gameState = "START"
            THEN StartGame
            ELSE UNCHANGED <<gameState, score, highScore, currentMilestone,
                             backgroundIndex, obstacleSpeed, spawnTimer, spawnInterval,
                             width, groundY, astronaut, obstacles, storedItem,
                             storeLog, runs, presses, hist>>

(* windowResized(): the canvas takes the window's new size *)
WindowResized(windowWidth, windowHeight) ==
    /\ width' = windowWidth
    /\ groundY' = windowHeight - GROUND_Y_OFFSET
    /\ astronaut' = [astronaut EXCEPT
                       !.x = (width' * XU) \div 4,
                       !.y = Min(@, groundY' * YU - (AstroH * YU) \div 2)]
    /\ lastEvent' = "resize"
    /\ UNCHANGED <<gameState, score, highScore, currentMilestone, backgroundIndex,
                   obstacleSpeed, spawnTimer, spawnInterval, obstacles, storedItem,
                   storeLog, runs, presses, hist>>

(* keyPressed(), 'r' or 'R'; the key is delivered when keyOK *)
KeyRWhen(keyOK) ==
    /\ keyOK
    /\ lastEvent' = "r"
    /\ IF gameState = "GAME_OVER"
       THEN StartGame
       ELSE UNCHANGED <<gameState, score, highScore, currentMilestone,
                        backgroundIndex, obstacleSpeed, spawnTimer, spawnInterval,
                        width, groundY, astronaut, obstacles, storedItem,
                        storeLog, runs, presses, hist>>

----------------------------------------------------------------------------
(* The sketch under every press timing: presses arrive in any frame whose score is
   a multiple of PressEvery, at most MaxPresses of them *)

DrawPlaying == DrawPlayingOn(TimerPercents, SizePercents, MaxScore)

KeySpace == KeySpaceWhen(presses < MaxPresses /\ score % PressEvery = 0)

KeyR == KeyRWhen(IF gameState = "GAME_OVER" THEN runs < MaxRuns
                                             ELSE score % PressEvery = 0)

Next == DrawStart \/ DrawPlaying \/ DrawGameOver \/ KeySpace \/ KeyR

Spec == Init /\ [][Next]_vars

----------------------------------------------------------------------------
(* The long game: a player who jumps only from the ground, when an obstacle is
   between NearLo and NearHi px ahead, and restarts only after a run that drove
   spawnInterval to its floor; random() always draws the middle of its range *)

MidPercents == {50}

ObstacleNear ==
    \E i \in 1..Len(obstacles) :
       LET d == obstacles[i].x - (astronaut.x + (AstroW * XU) \div 2)
       IN  d >= NearLo * XU /\ d <= NearHi * XU

DrawPlayingDeep == DrawPlayingOn(TimerPercents, MidPercents, DeepScore)

KeySpaceDeep == KeySpaceWhen(astronaut.isGrounded /\ ObstacleNear)

KeyRDeep == KeyRWhen(IF gameState = "GAME_OVER"
                     THEN runs < MaxRuns /\ spawnInterval = 40 * TU
                     ELSE gameState = "START")

NextDeep == DrawStart \/ DrawPlayingDeep \/ DrawGameOver \/ KeySpaceDeep \/ KeyRDeep

SpecDeep == Init /\ [][NextDeep]_vars

-----------------------------------------------------------------------------
(* The wide field: a canvas on which several obstacles are under way at once,
   one long run in which every spawn timer is drawn at the low end or in the
   middle of its range, with the same presses as above *)
LowPercents == {0, 50}

InitField == Setup(FieldWidth, WindowHeight)

DrawPlayingField == DrawPlayingOn(LowPercents, MidPercents, FieldScore)

KeyRField == KeyRWhen(gameState = "START")

NextField == DrawStart \/ DrawPlayingField \/ DrawGameOver \/ KeySpaceDeep \/ KeyRField

SpecField == InitField /\ [][NextField]_vars

-----------------------------------------------------------------------------
(* Resizing: short runs, ended before the first obstacle is spawned, in which
   the window is resized to another height between frames *)
DrawPlayingResize == DrawPlayingOn(TimerPercents, SizePercents, ResizeScore)

Resize ==
    /\ score % PressEvery = 0
    /\ \E windowHeight \in ResizeHeights :
          /\ windowHeight - GROUND_Y_OFFSET # groundY
          /\ WindowResized(width, windowHeight)

NextResize == DrawStart \/ DrawPlayingResize \/ KeySpace \/ Resize

SpecResize == Init /\ [][NextResize]_vars

-----------------------------------------------------------------------------
(* The narrow field: the long runs of SpecDeep on a canvas narrower than 80 *)
InitNarrow == Setup(NarrowWidth, WindowHeight)

SpecNarrow == InitNarrow /\ [][NextDeep]_vars

----------------------------------------------------------------------------
(* Properties *)

(* Some obstacle of the collection overlaps the astronaut *)
Colliding == \E i \in 1..Len(obstacles) : Hits(astronaut, obstacles[i])

(* What a step may do to the phase *)
C1_PhaseStep ==
    /\ gameState' # gameState =>
          \/ gameState = "START" /\ gameState' = "PLAYING" /\ lastEvent' = "space"
          \/ gameState = "PLAYING" /\ gameState' = "GAME_OVER" /\ lastEvent' = "draw"
                /\ Colliding'
          \/ gameState = "GAME_OVER" /\ gameState' = "PLAYING" /\ lastEvent' = "r"
    /\ lastEvent' = "space" /\ gameState = "START" => gameState' = "PLAYING"
    /\ lastEvent' = "r" /\ gameState = "GAME_OVER" => gameState' = "PLAYING"

(* C1: the phase starts as START and changes only from START to PLAYING on a
   space press, from PLAYING to GAME_OVER on a frame that finds the astronaut
   hitting an obstacle, and from GAME_OVER to PLAYING on an 'r' press; START is
   never re-entered, 'r' in START or PLAYING and space in GAME_OVER leave the
   phase as it is. *)
C1_PhaseTransitions ==
    /\ gameState = "START"
    /\ [][C1_PhaseStep]_vars

(* C1 witness: a second run has been started by 'r' after a game over *)
C1_Witness == gameState = "PLAYING" /\ runs = 2 /\ lastEvent = "r"

(* What a step may do to score and obstacleSpeed *)
C2_ScoreSpeedStep ==
    /\ lastEvent' = "draw" /\ gameState = "PLAYING" =>
          score' = score + 1 /\ obstacleSpeed' = obstacleSpeed + SPEED_INCREASE
    /\ lastEvent' # "draw" =>
          IF gameState' = "PLAYING" /\ gameState # "PLAYING"
          THEN score' = 0 /\ obstacleSpeed' = START_SPEED
          ELSE score' = score /\ obstacleSpeed' = obstacleSpeed
    /\ obstacleSpeed' = START_SPEED + score' * SPEED_INCREASE

(* C2: a frame in PLAYING, the one that finds the hit included, adds 1 to score
   and SPEED_INCREASE to obstacleSpeed; a key press leaves both as they are,
   except that the press that starts a run resets them to 0 and START_SPEED; so
   obstacleSpeed = START_SPEED + score * SPEED_INCREASE after every step. *)
C2_ScoreSpeed == [][C2_ScoreSpeedStep]_vars

(* C2 witness: the frame that found the hit has counted, after key presses *)
C2_Witness == gameState = "GAME_OVER" /\ presses > 0 /\ score > 110

(* What a frame of a run leaves in backgroundIndex and currentMilestone *)
C3_MilestoneStep ==
    lastEvent' = "draw" /\ gameState = "PLAYING" =>
       /\ backgroundIndex' = score' \div 100
       /\ currentMilestone' = 100 * (backgroundIndex' + 1)
       /\ backgroundIndex' - backgroundIndex \in {0, 1}
       /\ score' = 100 => backgroundIndex' = 1 /\ currentMilestone' = 200

(* C3: at the end of every frame of a run backgroundIndex = score \div 100 and
   currentMilestone = 100 * (backgroundIndex + 1); after 100 frames they are 1
   and 200; backgroundIndex grows by at most 1 per frame. *)
C3_Milestones == [][C3_MilestoneStep]_vars

(* C3 witness: the two-hundredth frame of a second run, started after a run
   that passed seven milestones, has just been drawn *)
C3_Witness ==
    /\ runs = 2 /\ highScore > 700 /\ lastEvent = "draw"
    /\ score = 200 /\ backgroundIndex = 2 /\ currentMilestone = 300

(* What a step may do to highScore and the stored item *)
C4_StoreStep ==
    /\ IF gameState = "PLAYING" /\ gameState' = "GAME_OVER"
       THEN /\ highScore' = Max(highScore, score')
            /\ storeLog' = IF score' > highScore THEN Append(storeLog, score')
                                                 ELSE storeLog
            /\ storedItem' = IF score' > highScore THEN score' ELSE storedItem
       ELSE storeLog' = storeLog /\ storedItem' = storedItem
    /\ Len(storeLog') <= runs'

(* C4: on the step from PLAYING into GAME_OVER highScore becomes the larger of
   its old value and score, and storeItem is called once, with score, when score
   exceeds the old highScore, and not called otherwise; no other step calls it,
   so there is at most one call per run. *)
C4_HighScoreStore == [][C4_StoreStep]_vars

(* C4 witness: two runs are over, one stored its score and the other did not *)
C4_Witness == gameState = "GAME_OVER" /\ runs = 2 /\ Len(storeLog) = 1

(* What a step may do to highScore *)
C5_HighScoreStep ==
    /\ highScore' >= highScore
    /\ gameState' = "GAME_OVER" => highScore' >= score'

(* C5: highScore never decreases, and in GAME_OVER highScore >= score. *)
C5_HighScoreMonotone == [][C5_HighScoreStep]_vars

(* C5 witness: a run started by 'r' keeps a high score above its own score *)
C5_Witness == runs = 2 /\ gameState = "GAME_OVER" /\ highScore > score

(* C6: in every state, before the first frame, during a run, in GAME_OVER and
   after a restart, spawnInterval >= 40, however large the score. *)
C6_IntervalFloor == spawnInterval >= 40 * TU

(* C6 witness: a run restarted after a run whose score passed 750, where
   90 - score / 15 is below 40, still holds the interval at 40 *)
C6_Witness ==
    /\ runs = 2 /\ gameState = "PLAYING" /\ score = 0 /\ highScore > 750
    /\ spawnInterval = 40 * TU

Abs(n) == IF n < 0 THEN -n ELSE n

(* The astronaut's lower edge *)
Bottom(a) == a.y + (AstroH * YU) \div 2

(* What a step may do to the astronaut's jumps *)
C7_JumpStep ==
    /\ lastEvent' = "space" /\ gameState = "PLAYING" =>
          IF astronaut.isGrounded
          THEN astronaut' = [astronaut EXCEPT !.vy = JUMP_FORCE, !.isGrounded = FALSE,
                                              !.jumpCount = 1]
          ELSE IF astronaut.jumpCount = 1
               THEN astronaut' = [astronaut EXCEPT !.vy = DOUBLE_JUMP_FORCE,
                                                   !.jumpCount = 2]
               ELSE astronaut' = astronaut
    /\ lastEvent' = "draw" /\ gameState = "PLAYING" =>
          \/ astronaut'.jumpCount = astronaut.jumpCount
          \/ astronaut'.isGrounded /\ astronaut'.jumpCount = 0
    /\ astronaut'.jumpCount \in 0..2
    /\ ~astronaut'.isGrounded => astronaut'.jumpCount \in 1..2

(* C7: exactly one double jump: a space press in PLAYING on a grounded astronaut
   sets vy = JUMP_FORCE, isGrounded = FALSE, jumpCount = 1; the next one in the
   air sets vy = DOUBLE_JUMP_FORCE, jumpCount = 2; every further press before
   landing leaves the astronaut as it is.  jumpCount counts the presses that took
   effect since the last grounding: a frame keeps it unless it grounds the
   astronaut, so it never exceeds 2. *)
C7_OneDoubleJump == [][C7_JumpStep]_vars

(* C7 witness: a third press in the air has just been ignored, the velocity is
   not a jump impulse *)
C7_Witness ==
    /\ gameState = "PLAYING" /\ lastEvent = "space" /\ presses = 3
    /\ ~astronaut.isGrounded /\ astronaut.jumpCount = 2
    /\ astronaut.vy # DOUBLE_JUMP_FORCE

(* C8: checkGroundCollision(groundY) called with the lower edge >= groundY and
   vy >= 0 leaves the lower edge at groundY, vy = 0, isGrounded, jumpCount = 0,
   whatever vy >= 0, jumpCount and isGrounded were; and after the failsafe clamp
   of update() it changes nothing.  The velocities tried are the magnitudes the
   astronaut's velocity takes, the depths 0 and one frame's fall. *)
C8_Landing ==
    /\ \A jc \in 0..2, g \in BOOLEAN, depth \in {0, Abs(astronaut.vy)} :
          LET a == [astronaut EXCEPT !.y = groundY * YU - (AstroH * YU) \div 2 + depth,
                                     !.vy = Abs(astronaut.vy), !.jumpCount = jc,
                                     !.isGrounded = g]
              r == CheckGroundCollision(a, groundY)
          IN  /\ Bottom(r) = groundY * YU
              /\ r.vy = 0
              /\ r.isGrounded
              /\ r.jumpCount = 0
              /\ r.x = a.x
    /\ LET g == ApplyGravity(astronaut)
           a1 == AstroUpdate(g, groundY)
       IN  /\ Bottom(g) + g.vy + g.ay > groundY * YU =>
                 CheckGroundCollision(a1, groundY) = a1
           /\ Bottom(a1) >= groundY * YU /\ a1.vy >= 0 =>
                 LET r == CheckGroundCollision(a1, groundY)
                 IN  Bottom(r) = groundY * YU /\ r.vy = 0 /\ r.isGrounded
                     /\ r.jumpCount = 0

(* C8 witness: the astronaut, falling after a double jump, reaches the ground
   line exactly in the next frame: update() does not clamp, the check lands it *)
C8_Witness ==
    /\ gameState = "PLAYING" /\ score < MaxScore
    /\ ~astronaut.isGrounded /\ astronaut.jumpCount = 2
    /\ LET a1 == AstroUpdate(ApplyGravity(astronaut), groundY)
       IN  Bottom(a1) = groundY * YU /\ a1.vy > 0 /\ ~a1.isGrounded

(* What a step in GAME_OVER may change *)
C9_FrozenStep ==
    gameState = "GAME_OVER" /\ lastEvent' # "r" =>
       UNCHANGED <<gameState, score, obstacleSpeed, spawnInterval, spawnTimer,
                   backgroundIndex, currentMilestone, highScore, obstacles, astronaut>>

(* C9: in GAME_OVER frames and space presses change nothing of the simulation:
   score, obstacleSpeed, spawnInterval, spawnTimer, backgroundIndex,
   currentMilestone, highScore, the obstacles and the astronaut stay as they are;
   only an 'r' press changes them. *)
C9_GameOverFrozen == [][C9_FrozenStep]_vars

(* C9 witness: the game is over with the astronaut in the air and an obstacle
   on the field, and a space press has arrived since *)
C9_Witness ==
    /\ gameState = "GAME_OVER" /\ lastEvent = "space"
    /\ ~astronaut.isGrounded /\ obstacles # <<>>

(* What a step that starts a run leaves *)
C10_ResetStep ==
    runs' = runs + 1 =>
       /\ gameState \in {"START", "GAME_OVER"} /\ gameState' = "PLAYING"
       /\ score' = 0
       /\ backgroundIndex' = 0
       /\ currentMilestone' = SCORE_MILESTONE
       /\ obstacles' = <<>>
       /\ obstacleSpeed' = START_SPEED
       /\ astronaut' = [x |-> (width * XU) \div 4,
                        y |-> groundY * YU - (AstroH * YU) \div 2,
                        vy |-> 0, ay |-> 0, isGrounded |-> TRUE, jumpCount |-> 0]
       /\ spawnTimer' = spawnInterval
       /\ spawnInterval' = spawnInterval
       /\ highScore' = highScore

(* C10: startGame(), from START by space or from GAME_OVER by 'r', leaves
   score = 0, backgroundIndex = 0, currentMilestone = SCORE_MILESTONE, no
   obstacles, obstacleSpeed = START_SPEED, the astronaut at (width / 4,
   groundY - h / 2) at rest, grounded, jumpCount = 0, and spawnTimer equal to
   spawnInterval, which is left as the previous run left it, as is highScore. *)
C10_ResetRun == [][C10_ResetStep]_vars

(* C10 witness: a run restarted by 'r' with the interval the last run ended on *)
C10_Witness ==
    /\ runs = 2 /\ lastEvent = "r" /\ gameState = "PLAYING" /\ score = 0
    /\ spawnTimer = spawnInterval /\ spawnInterval < 90 * TU /\ highScore > 0

(* What the key press that starts the first run leaves of the astronaut, and
   the only step that gives the astronaut an upward velocity *)
C11_StartStep ==
    /\ (gameState = "START" /\ gameState' = "PLAYING") =>
          /\ lastEvent' = "space"
          /\ astronaut'.isGrounded
          /\ astronaut'.vy = 0
          /\ astronaut'.jumpCount = 0
    /\ (astronaut.vy >= 0 /\ astronaut'.vy < 0) =>
          /\ gameState = "PLAYING" /\ gameState' = "PLAYING"
          /\ lastEvent' = "space"
          /\ presses' = presses + 1

(* C11: the space press that starts the run from START applies no jump
   impulse: right after the START -> PLAYING step the astronaut is grounded
   with vel.y = 0 and jumpCount = 0, and vel.y becomes negative only by a
   later space press delivered while the phase is PLAYING. *)
C11_StartNoImpulse == [][C11_StartStep]_vars

(* C11 witness: the first run was started and the first press after the start
   has just given the astronaut the jump velocity *)
C11_Witness ==
    /\ runs = 1 /\ gameState = "PLAYING" /\ score = 0 /\ lastEvent = "space"
    /\ presses = 1 /\ astronaut.vy = JUMP_FORCE /\ astronaut.jumpCount = 1

(* The box of an astronaut, centred on its position *)
C12_AstroBox(a) ==
    [left |-> a.x - (AstroW * XU) \div 2, right |-> a.x + (AstroW * XU) \div 2,
     top |-> a.y - (AstroH * YU) \div 2, bottom |-> a.y + (AstroH * YU) \div 2]

(* The box of an obstacle, anchored at its top-left corner *)
C12_ObsBox(o) ==
    [left |-> o.x, right |-> o.x + o.w, top |-> o.y, bottom |-> o.y + o.h]

(* None of the four separations holds between boxes A and B *)
C12_Overlap(A, B) ==
    ~ \/ A.right < B.left
      \/ A.left > B.right
      \/ A.bottom < B.top
      \/ A.top > B.bottom

(* A and B share an edge or a corner and no interior point *)
C12_Touching(A, B) ==
    /\ A.right >= B.left /\ A.left <= B.right
    /\ A.bottom >= B.top /\ A.top <= B.bottom
    /\ \/ A.right = B.left
       \/ A.left = B.right
       \/ A.bottom = B.top
       \/ A.top = B.bottom

(* Obstacles placed around astronaut a: inside it, edge to edge and corner to
   corner with it, and up to MaxGap units short of or past touching *)
C12_Probes(a) ==
    LET A == C12_AstroBox(a)
        w == 30 * XU
        h == 20 * YU
        xs == {a.x} \cup { A.right + d : d \in -MaxGap..MaxGap }
                    \cup { A.left - w + d : d \in -MaxGap..MaxGap }
        ys == {a.y} \cup { A.bottom + d : d \in -MaxGap..MaxGap }
                    \cup { A.top - h + d : d \in -MaxGap..MaxGap }
    IN  { NewObstacle(x, y, w, h) : x \in xs, y \in ys }

(* hits() agrees with the separation test on obstacle o, in either order of
   the two boxes, and counts touching as a hit *)
C12_Agrees(a, o) ==
    LET A == C12_AstroBox(a)
        B == C12_ObsBox(o)
    IN  /\ Hits(a, o) = C12_Overlap(A, B)
        /\ Hits(a, o) = C12_Overlap(B, A)
        /\ C12_Touching(A, B) => Hits(a, o)

(* C12: hits() returns true exactly when none of A.right < B.left,
   A.left > B.right, A.bottom < B.top, A.top > B.bottom holds between the
   astronaut's box (centred on its position) and the obstacle's box (anchored
   at its top-left corner); boxes that only touch at an edge or a corner
   collide; the result is the same whichever box is taken as A. *)
C12_HitsIsOverlap ==
    /\ \A i \in 1..Len(obstacles) : C12_Agrees(astronaut, obstacles[i])
    /\ \A o \in C12_Probes(astronaut) : C12_Agrees(astronaut, o)

(* C12 witness: the frame in which hits() returned true for an obstacle on the
   field *)
C12_Witness ==
    /\ gameState = "GAME_OVER" /\ lastEvent = "draw"
    /\ \E i \in 1..Len(obstacles) :
          /\ Hits(astronaut, obstacles[i])
          /\ C12_Overlap(C12_AstroBox(astronaut), C12_ObsBox(obstacles[i]))

(* C13 as stated: two consecutive spawns of a run are at least 40 frames apart *)
C13_Floor40 == prevSpawn > 0 => lastSpawn - prevSpawn >= 40

(* C13: spawnInterval has a floor of 40 frames, and the timer that separates
   two spawns is drawn between 0.8 and 1.2 times spawnInterval: two
   consecutive spawns of a run are at least 0.8 times the spawnInterval of the
   earlier spawn's frame apart, which is at least 32 frames, for every score
   and every outcome of the draw. *)
C13_Floor32 ==
    prevSpawn > 0 =>
       /\ (lastSpawn - prevSpawn) * TU >= TimerLow(SpawnIntervalOf(prevSpawn))
       /\ lastSpawn - prevSpawn >= 32

(* C13 witness: the latest spawn came fewer than 40 frames after the one before *)
C13_Witness ==
    /\ gameState = "PLAYING" /\ prevSpawn > 0
    /\ lastSpawn - prevSpawn < 40 /\ lastSpawn - prevSpawn >= 32
    /\ lastSpawn = score

(* C14 as stated: the collision that ends a run is found with the astronaut
   where it stood before the frame's physics step *)
C14_CheckBeforePhysics ==
    [][(lastEvent' = "draw" /\ gameState = "PLAYING" /\ gameState' = "GAME_OVER") =>
          \E i \in 1..Len(obstacles') : Hits(astronaut, obstacles'[i])]_vars

(* What a PLAYING frame shows of the order of its steps *)
C14_OrderStep ==
    (lastEvent' = "draw" /\ gameState = "PLAYING") =>
       /\ score' = score + 1
       /\ astronaut' = CheckGroundCollision(
                           AstroUpdate(ApplyGravity(astronaut), groundY), groundY)
       /\ (lastSpawn' # lastSpawn) =>
             LET new == obstacles'[Len(obstacles')]
             IN  /\ Len(obstacles') >= 1
                 /\ lastSpawn' = score'
                 /\ new.h >= Min(45 * YU, 20 * YU + score')
                 /\ new.x = width * XU + new.w - obstacleSpeed'
                 /\ spawnTimer' >= TimerLow(SpawnIntervalOf(score'))
       /\ gameState' = "GAME_OVER" <=>
             \E i \in 1..Len(obstacles') : Hits(astronaut', obstacles'[i])

(* C14: within one PLAYING frame the steps run in the order score and
   difficulty, the astronaut's physics (gravity, integration, ground check),
   spawn, obstacle advance with the collision check: an obstacle spawned in
   the frame is sized by the updated score and advanced by the updated speed
   in that frame, and the collision check is made against the astronaut's
   position after that frame's physics step, which runs in the collision
   frame too. *)
C14_CheckAfterPhysics == [][C14_OrderStep]_vars

(* C14 witness: the run ended on an obstacle the falling astronaut did not yet
   overlap where it stood before the frame's physics step *)
C14_Witness ==
    /\ gameState = "GAME_OVER" /\ lastEvent = "draw"
    /\ astronaut.vy > 0 /\ ~astronaut.isGrounded
    /\ \E i \in 1..Len(obstacles) :
          /\ Hits(astronaut, obstacles[i])
          /\ ~Hits([astronaut EXCEPT !.y = @ - astronaut.vy], obstacles[i])

(* The index the obstacle loop stopped at in a frame that ended the run: the
   obstacles after it were visited and did not hit *)
C15_StoppedAt(k) ==
    /\ Hits(astronaut', obstacles'[k])
    /\ \A j \in (k + 1)..Len(obstacles') : ~Hits(astronaut', obstacles'[j])

(* What the frame that ends the run does to the obstacles *)
C15_CollisionStep ==
    (lastEvent' = "draw" /\ gameState = "PLAYING" /\ gameState' = "GAME_OVER") =>
       \E k \in 1..Len(obstacles') :
          /\ C15_StoppedAt(k)
          /\ k <= Len(obstacles) => obstacles'[k] = ObstacleUpdate(obstacles[k], obstacleSpeed')
          /\ \A j \in 1..(k - 1) : j <= Len(obstacles) /\ obstacles'[j] = obstacles[j]

(* C15: in the frame in which a collision is detected the phase becomes
   GAME_OVER in that frame and the obstacle loop stops at the colliding
   obstacle: that obstacle, advanced, stays in the collection, and every
   obstacle the loop had not yet visited (the ones spawned before it) is
   neither advanced nor removed, its position at the end of the frame being
   its position at the start. *)
C15_StopsAtCollision == [][C15_CollisionStep]_vars

(* C15 witness: the run ended on an obstacle that is not the oldest on the
   field, so the loop left at least one obstacle unvisited *)
C15_Witness ==
    /\ gameState = "GAME_OVER" /\ lastEvent = "draw"
    /\ \E k \in 2..Len(obstacles) :
          /\ Hits(astronaut, obstacles[k])
          /\ ~Hits(astronaut, obstacles[k - 1])

(* The right edge of obstacle o is left of the field *)
C16_Passed(o) == o.x + o.w < 0

(* What a PLAYING frame without collision does to the obstacles: the ones on
   the field at its start are each moved once and kept, in order, unless
   passed; the one spawned in the frame follows them, moved once too *)
C16_AdvanceStep ==
    (lastEvent' = "draw" /\ gameState = "PLAYING" /\ gameState' = "PLAYING") =>
       LET moved == [i \in 1..Len(obstacles) |->
                        [obstacles[i] EXCEPT !.x = @ - obstacleSpeed']]
           Stays(o) == ~C16_Passed(o)
           kept == SelectSeq(moved, Stays)
           n == Len(kept)
       IN  /\ removed' = removed + Len(moved) - n
           /\ IF lastSpawn' # lastSpawn
              THEN /\ Len(obstacles') = n + 1
                   /\ SubSeq(obstacles', 1, n) = kept
                   /\ obstacles'[n + 1].x =
                         width * XU + obstacles'[n + 1].w - obstacleSpeed'
              ELSE obstacles' = kept

(* C16 as stated: what a frame without collision does to the obstacles, and no
   obstacle with x + w < 0 on the field at the end of any PLAYING frame, the
   collision frame included *)
C16_AsStated ==
    [][/\ C16_AdvanceStep
       /\ (lastEvent' = "draw" /\ gameState = "PLAYING") =>
             \A i \in 1..Len(obstacles') : ~C16_Passed(obstacles'[i])]_vars

(* The only obstacle a PLAYING frame leaves on the field with x + w < 0 is the
   one the loop stopped at in the frame that ended the run, under an astronaut
   whose left edge is left of the field's edge *)
C16_ColliderOnlyStep ==
    (lastEvent' = "draw" /\ gameState = "PLAYING") =>
       \A i \in 1..Len(obstacles') :
          C16_Passed(obstacles'[i]) =>
             /\ gameState' = "GAME_OVER"
             /\ C15_StoppedAt(i)
             /\ astronaut'.x - (AstroW * XU) \div 2 < 0

(* C16: in a PLAYING frame without collision every obstacle of the
   collection, the one spawned in that frame included, is advanced exactly
   once by the current obstacleSpeed, exactly those whose right edge is then
   left of 0 are removed, and the remaining ones keep their spawn order; so at
   the end of every frame without collision no obstacle of the collection has
   x + w < 0, and at the end of a collision frame only the colliding obstacle
   can, because the loop stops before its offscreen test. *)
C16_SafeRemoval == [][C16_AdvanceStep /\ C16_ColliderOnlyStep]_vars

(* C16 witness: the run ended on an obstacle whose right edge had already
   passed the field's edge, and the obstacle is still in the collection *)
C16_Witness ==
    /\ gameState = "GAME_OVER" /\ lastEvent = "draw"
    /\ \E i \in 1..Len(obstacles) :
          C16_Passed(obstacles[i]) /\ Hits(astronaut, obstacles[i])

(* What a step leaves of an astronaut flagged grounded, and the only step that
   clears the flag *)
C17_GroundedStep ==
    /\ (lastEvent' = "draw" /\ astronaut'.isGrounded) =>
          /\ astronaut'.vy = 0
          /\ Bottom(astronaut') = groundY' * YU
    /\ (astronaut.isGrounded /\ ~astronaut'.isGrounded) =>
          lastEvent' = "space" /\ gameState = "PLAYING"

(* C17: at the end of every frame, over frames, space and 'r' presses and
   window resizes that change groundY, an astronaut with isGrounded = true has
   vel.y = 0 and its lower edge (pos.y + h / 2) on the ground line groundY;
   isGrounded is cleared by jump() only, and an astronaut in the air while
   flagged grounded is not reachable. *)
C17_GroundedOnGround == [][C17_GroundedStep]_vars

(* C18: spawnInterval decreases monotonically during a run: from the start of
   a run to its GAME_OVER no PLAYING frame leaves spawnInterval larger than it
   was before the frame, the first frame of a run that follows an earlier run
   included. *)
C18_IntervalMonotone ==
    [][(lastEvent' = "draw" /\ gameState = "PLAYING") =>
          spawnInterval' <= spawnInterval]_vars

(* C19: in every reachable state, between any two of the operations frame,
   space press and start or restart, jumpCount is 0, 1 or 2 and isGrounded is
   true exactly when jumpCount = 0. *)
C19_GroundedIffNoJumps ==
    /\ astronaut.jumpCount \in {0, 1, 2}
    /\ astronaut.isGrounded <=> astronaut.jumpCount = 0

(* C19 witness: the astronaut has landed again after a jump and a double jump *)
C19_Witness ==
    /\ gameState = "PLAYING" /\ lastEvent = "draw" /\ presses >= 2
    /\ astronaut.isGrounded /\ astronaut.jumpCount = 0
    /\ Bottom(astronaut) = groundY * YU

(* The astronaut's box and the box of obstacle o share a point *)
C20_Overlaps(a, o) ==
    /\ a.x + (AstroW * XU) \div 2 >= o.x
    /\ a.x - (AstroW * XU) \div 2 <= o.x + o.w
    /\ a.y + (AstroH * YU) \div 2 >= o.y
    /\ a.y - (AstroH * YU) \div 2 <= o.y + o.h

(* What a PLAYING frame leaves when the run goes on, and when it does not *)
C20_FrameStep ==
    (lastEvent' = "draw" /\ gameState = "PLAYING") =>
       /\ gameState' = "PLAYING" =>
             \A i \in 1..Len(obstacles') : ~C20_Overlaps(astronaut', obstacles'[i])
       /\ (\E i \in 1..Len(obstacles') : C20_Overlaps(astronaut', obstacles'[i])) =>
             gameState' = "GAME_OVER"

(* C20: no collision is missed: whenever a frame ends with the phase still
   PLAYING, the astronaut's box after that frame's physics step overlaps none
   of the obstacles of the collection after their advance and the spawn;
   an overlap present at the frame's collision check puts the game in
   GAME_OVER in that same frame. *)
C20_NoMissedCollision == [][C20_FrameStep]_vars

(* C20 witness: the run goes on with the astronaut in the air right above an
   obstacle, their boxes apart only vertically *)
C20_Witness ==
    /\ gameState = "PLAYING" /\ lastEvent = "draw"
    /\ \E i \in 1..Len(obstacles) :
          /\ astronaut.x + (AstroW * XU) \div 2 >= obstacles[i].x
          /\ astronaut.x - (AstroW * XU) \div 2 <= obstacles[i].x + obstacles[i].w
          /\ Bottom(astronaut) < obstacles[i].y
          /\ ~C20_Overlaps(astronaut, obstacles[i])

(* C21: every jump lands: while the phase stays PLAYING and frames keep
   coming, an astronaut with isGrounded = false is grounded again after
   finitely many frames, at most MaxAir frames in a row ending in the air,
   whatever space presses arrive in between (one further impulse at most); and
   at the end of every frame the astronaut's lower edge is not below the
   ground line. *)
C21_JumpLands ==
    /\ airFrames <= MaxAir
    /\ (gameState = "PLAYING" /\ lastEvent = "draw") =>
          (airFrames = 0 <=> astronaut.isGrounded)
    /\ lastEvent = "draw" => Bottom(astronaut) <= groundY * YU

(* C21 witness: the astronaut has been in the air for the longest time a jump
   and a double jump allow, and the next frame lands it *)
C21_Witness ==
    /\ gameState = "PLAYING" /\ lastEvent = "draw"
    /\ airFrames = MaxAir /\ astronaut.jumpCount = 2 /\ ~astronaut.isGrounded
    /\ CheckGroundCollision(AstroUpdate(ApplyGravity(astronaut), groundY),
                            groundY).isGrounded

====
